---- MODULE Spec2Model ----
(***************************************************************************)
(* A model of the KMS capture backend of mcp-screenshot:                   *)
(*   - src/backend/pixel_format.rs : the pixel decoder (convert_to_rgba)   *)
(*   - src/backend/kms.rs          : open / probe_outputs / capture /      *)
(*                                   list_monitors / mmap_gem_buffer       *)
(***************************************************************************)
EXTENDS Integers, Sequences, FiniteSets, TLC

VARIABLES
    build,      \* "debug" (overflow-checks on) or "release" (wrapping arithmetic)
    d_in,       \* decoder: the arguments of convert_to_rgba
    d_out,      \* decoder: the value convert_to_rgba returned for d_in
    p_card,     \* prober: the card handed to probe_outputs
    p_out,      \* prober: the value probe_outputs returned for p_card
    dri,        \* /dev/dri: the device nodes, by file name
    opened,     \* the file names Card::open was called on, in call order
    backend,    \* the KmsBackend value open returned (or why there is none)
    crtc_fb,    \* the device: the framebuffer each CRTC scans out now
    gem,        \* the device: the GEM handles this process holds open
    last        \* the last call on the backend and everything it did

vars == <<build, d_in, d_out, p_card, p_out, dri, opened, backend, crtc_fb, gem, last>>

None == "none"

\* `let x = e; F(x)`: e is evaluated once and F applied to its value.
let_in(e, F(_)) == CHOOSE r \in { F(x) : x \in {e} } : TRUE

(***************************************************************************)
(* Machine arithmetic.  TLC's integers are 32-bit signed, so a u32 or a    *)
(* usize is held as two 16-bit limbs: [hi, lo] stands for hi * 2^16 + lo.  *)
(* A u32 has hi < 2^16; a usize (64-bit target) has a larger hi.           *)
(***************************************************************************)
Limb == 2 ^ 16

\* A small natural number as a limb pair.
U(n) == [hi |-> n \div Limb, lo |-> n % Limb]

\* usize addition of a small offset (indices never reach 2^64 here).
add_usize(a, n) == [hi |-> a.hi + ((a.lo + n) \div Limb), lo |-> (a.lo + n) % Limb]

lt_usize(a, b) == a.hi < b.hi \/ (a.hi = b.hi /\ a.lo < b.lo)

le_usize(a, b) == a = b \/ lt_usize(a, b)

\* The exact product y * p of a row index y < 2^15 and a limb pair (a usize).
mul_usize(y, p) ==
    [hi |-> y * p.hi + ((y * p.lo) \div Limb), lo |-> (y * p.lo) % Limb]

\* u32 multiplication `y * pitch`: with overflow checks the build panics when
\* the product does not fit 32 bits, without them it wraps modulo 2^32.
mul_u32(y, p, b) ==
    LET exact == mul_usize(y, p) IN
    IF exact.hi < Limb THEN [panic |-> FALSE, val |-> exact]
    ELSE IF b = "debug" THEN [panic |-> TRUE, val |-> exact]
    ELSE [panic |-> FALSE, val |-> [hi |-> exact.hi % Limb, lo |-> exact.lo]]

\* `(width * height * 4) as usize` for width, height < 2^15: the u32 product
\* overflows exactly when width * height >= 2^30.
capacity_overflows(width, height, b) ==
    b = "debug" /\ width * height >= 2 ^ 30

(***************************************************************************)
(* Byte buffers.  A buffer is its length and its contents; the contents    *)
(* are a base pattern (a function of the address) overridden at the        *)
(* addresses in `set`, so that a multi-gigabyte buffer is representable.   *)
(***************************************************************************)
Pat(seed, a) == (seed + 41 * a.lo + 13 * (a.hi % 251)) % 256

byte_at(src, a) == IF a \in DOMAIN src.set THEN src.set[a] ELSE Pat(src.seed, a)

Panic == -1

\* `row[i]` with `row = &src[start..]`: panics unless start + i < src.len().
index(src, start, i) ==
    LET a == add_usize(start, i) IN
    IF lt_usize(a, src.len) THEN byte_at(src, a) ELSE Panic

(***************************************************************************)
(* pixel_format.rs                                                         *)
(***************************************************************************)
Supported == {"Xrgb8888", "Argb8888", "Xbgr8888", "Abgr8888", "Rgb565"}

\* Bytes per pixel the converter of each encoding steps by (off = x * 4 / x * 2).
bytes_per_pixel(format) == IF format = "Rgb565" THEN 2 ELSE 4

\* The four pushes of one pixel, per converter.
push_xrgb8888(src, start, off) ==
    <<index(src, start, off + 2), index(src, start, off + 1), index(src, start, off), 255>>

push_argb8888(src, start, off) ==
    <<index(src, start, off + 2), index(src, start, off + 1), index(src, start, off),
      index(src, start, off + 3)>>

push_xbgr8888(src, start, off) ==
    <<index(src, start, off), index(src, start, off + 1), index(src, start, off + 2), 255>>

push_abgr8888(src, start, off) ==
    <<index(src, start, off), index(src, start, off + 1), index(src, start, off + 2),
      index(src, start, off + 3)>>

\* u8 shifts: `<<` on a u8 drops the bits shifted out; `|` of the two parts.
shl_u8(v, k) == (v * (2 ^ k)) % 256

shr(v, k) == v \div (2 ^ k)

\* Bitwise or of two bytes.
RECURSIVE bit_or(_, _)
bit_or(a, b) ==
    IF a = 0 THEN b
    ELSE IF b = 0 THEN a
    ELSE 2 * bit_or(a \div 2, b \div 2) + (IF a % 2 = 1 \/ b % 2 = 1 THEN 1 ELSE 0)

\* The 16-bit word `lo | (hi << 8)` (as u16) and its three fields.
pixel565(lo, hi) == bit_or(lo, (hi * 256) % Limb)

field_r(pixel) == shr(pixel, 11) % 32

field_g(pixel) == shr(pixel, 5) % 64

field_b(pixel) == pixel % 32

\* expand5 replicating the wrong bits: (v << 3) | (v >> 3).
expand5_shift3(v) == bit_or(shl_u8(v, 3), shr(v, 3))

expand5(v) == bit_or(shl_u8(v, 3), shr(v, 2))

expand6(v) == bit_or(shl_u8(v, 2), shr(v, 4))

push_rgb565(src, start, off) ==
    LET lo == index(src, start, off)
        hi == index(src, start, off + 1)
    IN  IF lo = Panic \/ hi = Panic THEN <<Panic, Panic, Panic, 255>>
        ELSE LET pixel == pixel565(lo, hi) IN
             <<expand5(field_r(pixel)), expand6(field_g(pixel)), expand5(field_b(pixel)), 255>>

push_pixel(format, src, start, off) ==
    CASE format = "Xrgb8888" -> push_xrgb8888(src, start, off)
      [] format = "Argb8888" -> push_argb8888(src, start, off)
      [] format = "Xbgr8888" -> push_xbgr8888(src, start, off)
      [] format = "Abgr8888" -> push_abgr8888(src, start, off)
      [] format = "Rgb565"   -> push_rgb565(src, start, off)

ok(data) == [kind |-> "ok", data |-> data]

panicked == [kind |-> "panic", data |-> <<>>]

err(msg) == [kind |-> "err", data |-> <<msg>>]

\* No call made yet.
not_called == [kind |-> "none", data |-> <<>>]

not_probed == [called |-> FALSE, ok |-> FALSE, outputs |-> <<>>]

\* `for x in 0..width as usize { ... }` of one row.
RECURSIVE row_loop(_, _, _, _, _, _)
row_loop(format, src, start, width, x, dst) ==
    IF x >= width THEN ok(dst)
    ELSE let_in(push_pixel(format, src, start, x * bytes_per_pixel(format)), LAMBDA px :
         IF \E k \in 1..4 : px[k] = Panic THEN panicked
         ELSE let_in(dst \o px, LAMBDA pushed :
              row_loop(format, src, start, width, x + 1, pushed)))

\* `for y in 0..height { let row = &src[(y * pitch) as usize..]; ... }`.
RECURSIVE rows_loop(_, _, _, _, _, _, _, _)
rows_loop(format, src, width, height, pitch, b, y, dst) ==
    IF y >= height THEN ok(dst)
    ELSE let_in(mul_u32(y, pitch, b), LAMBDA m :
         IF m.panic \/ lt_usize(src.len, m.val) THEN panicked
         ELSE let_in(row_loop(format, src, m.val, width, 0, dst), LAMBDA r :
              IF r.kind # "ok" THEN r
              ELSE rows_loop(format, src, width, height, pitch, b, y + 1, r.data)))

convert(format, src, width, height, pitch, b) ==
    IF capacity_overflows(width, height, b) THEN panicked
    ELSE rows_loop(format, src, width, height, pitch, b, 0, <<>>)

convert_xrgb8888(src, width, height, pitch, b) == convert("Xrgb8888", src, width, height, pitch, b)

convert_argb8888(src, width, height, pitch, b) == convert("Argb8888", src, width, height, pitch, b)

convert_xbgr8888(src, width, height, pitch, b) == convert("Xbgr8888", src, width, height, pitch, b)

convert_abgr8888(src, width, height, pitch, b) == convert("Abgr8888", src, width, height, pitch, b)

convert_rgb565(src, width, height, pitch, b) == convert("Rgb565", src, width, height, pitch, b)

convert_to_rgba(src, width, height, pitch, format, b) ==
    CASE format = "Xrgb8888" -> convert_xrgb8888(src, width, height, pitch, b)
      [] format = "Argb8888" -> convert_argb8888(src, width, height, pitch, b)
      [] format = "Xbgr8888" -> convert_xbgr8888(src, width, height, pitch, b)
      [] format = "Abgr8888" -> convert_abgr8888(src, width, height, pitch, b)
      [] format = "Rgb565"   -> convert_rgb565(src, width, height, pitch, b)
      [] OTHER               -> err("Unsupported pixel format")

(***************************************************************************)
(* kms.rs: probe_outputs.  A connector is what the device answers for it:  *)
(*   get_ok   get_connector succeeds        state    its connection state  *)
(*   name     its display name              encoder  current encoder, 0 = none *)
(*   enc_ok   get_encoder succeeds          crtc     the encoder's CRTC, 0 = none *)
(*   crtc_ok  get_crtc succeeds             mode     <<w, h>>, <<>> = none *)
(*   fb       the CRTC's framebuffer, 0 = none                             *)
(* A card is [res_ok, connectors]: resource_handles succeeds, and the      *)
(* connectors it lists.                                                    *)
(***************************************************************************)
ActiveOutput(c) ==
    [connector_name |-> c.name, crtc_handle |-> c.crtc,
     width |-> c.mode[1], height |-> c.mode[2], fb_handle |-> c.fb]

\* probe_one without the check for a bound framebuffer.
probe_one_any_fb(c) ==
    IF ~c.get_ok THEN "fail"
    ELSE IF c.state # "Connected" THEN "skip"
    ELSE IF c.encoder = 0 THEN "skip"
    ELSE IF ~c.enc_ok THEN "fail"
    ELSE IF c.crtc = 0 THEN "skip"
    ELSE IF ~c.crtc_ok THEN "fail"
    ELSE IF c.mode = <<>> THEN "skip"
    ELSE "push"

\* One iteration of the connector loop: "fail" (a `?` returns the error),
\* "skip" (a `continue`) or "push".
probe_one(c) ==
    IF ~c.get_ok THEN "fail"
    ELSE IF c.state # "Connected" THEN "skip"
    ELSE IF c.encoder = 0 THEN "skip"
    ELSE IF ~c.enc_ok THEN "fail"
    ELSE IF c.crtc = 0 THEN "skip"
    ELSE IF ~c.crtc_ok THEN "fail"
    ELSE IF c.mode = <<>> THEN "skip"
    ELSE IF c.fb = 0 THEN "skip"
    ELSE "push"

RECURSIVE probe_loop(_, _, _)
probe_loop(connectors, i, outputs) ==
    IF i > Len(connectors) THEN [ok |-> TRUE, outputs |-> outputs]
    ELSE LET step == probe_one(connectors[i]) IN
         IF step = "fail" THEN [ok |-> FALSE, outputs |-> <<>>]
         ELSE IF step = "skip" THEN probe_loop(connectors, i + 1, outputs)
         ELSE probe_loop(connectors, i + 1, Append(outputs, ActiveOutput(connectors[i])))

probe_outputs(card) ==
    IF ~card.res_ok THEN [ok |-> FALSE, outputs |-> <<>>]
    ELSE probe_loop(card.connectors, 1, <<>>)

(***************************************************************************)
(* kms.rs: open.  A file name is its sequence of bytes; /dev/dri is        *)
(* [readable, nodes]: read_dir succeeds, and the node behind each name,    *)
(* [can_open, card].                                                       *)
(***************************************************************************)
CardPrefix == <<99, 97, 114, 100>>

starts_with_card(name) == Len(name) >= 4 /\ SubSeq(name, 1, 4) = CardPrefix

\* The order of file names (byte-wise lexicographic).
RECURSIVE name_less(_, _)
name_less(a, b) ==
    IF b = <<>> THEN FALSE
    ELSE IF a = <<>> THEN TRUE
    ELSE IF Head(a) # Head(b) THEN Head(a) < Head(b)
    ELSE name_less(Tail(a), Tail(b))

\* entries.sort_by_key(|e| e.file_name())
RECURSIVE sort_by_name(_)
sort_by_name(names) ==
    IF names = {} THEN <<>>
    ELSE LET first == CHOOSE n \in names : \A m \in names \ {n} : name_less(n, m)
         IN  <<first>> \o sort_by_name(names \ {first})

card_entries(dir) == sort_by_name({n \in DOMAIN dir.nodes : starts_with_card(n)})

no_backend(why) == [kind |-> why, path |-> <<>>, outputs |-> <<>>]

\* open_loop giving up at the first card whose probe fails or is empty.
RECURSIVE open_loop_fatal_probe(_, _, _, _)
open_loop_fatal_probe(dir, entries, i, tried) ==
    IF i > Len(entries) THEN [backend |-> no_backend("err"), tried |-> tried]
    ELSE LET path == entries[i]
             node == dir.nodes[path]
         IN  IF ~node.can_open
             THEN open_loop_fatal_probe(dir, entries, i + 1, Append(tried, path))
             ELSE LET probed == probe_outputs(node.card) IN
                  IF probed.ok /\ probed.outputs # <<>>
                  THEN [backend |-> [kind |-> "ok", path |-> path, outputs |-> probed.outputs],
                        tried |-> Append(tried, path)]
                  ELSE [backend |-> no_backend("err"), tried |-> Append(tried, path)]

\* open_loop returning the first card that probes, with or without outputs.
RECURSIVE open_loop_accepts_empty(_, _, _, _)
open_loop_accepts_empty(dir, entries, i, tried) ==
    IF i > Len(entries) THEN [backend |-> no_backend("err"), tried |-> tried]
    ELSE LET path == entries[i]
             node == dir.nodes[path]
         IN  IF ~node.can_open
             THEN open_loop_accepts_empty(dir, entries, i + 1, Append(tried, path))
             ELSE LET probed == probe_outputs(node.card) IN
                  IF probed.ok
                  THEN [backend |-> [kind |-> "ok", path |-> path, outputs |-> probed.outputs],
                        tried |-> Append(tried, path)]
                  ELSE open_loop_accepts_empty(dir, entries, i + 1, Append(tried, path))

\* The loop over the sorted entries; `tried` collects the names Card::open was called on.
RECURSIVE open_loop(_, _, _, _)
open_loop(dir, entries, i, tried) ==
    IF i > Len(entries) THEN [backend |-> no_backend("err"), tried |-> tried]
    ELSE LET path == entries[i]
             node == dir.nodes[path]
         IN  IF ~node.can_open THEN open_loop(dir, entries, i + 1, Append(tried, path))
             ELSE LET probed == probe_outputs(node.card) IN
                  IF probed.ok /\ probed.outputs # <<>>
                  THEN [backend |-> [kind |-> "ok", path |-> path, outputs |-> probed.outputs],
                        tried |-> Append(tried, path)]
                  ELSE open_loop(dir, entries, i + 1, Append(tried, path))

open(dir) ==
    IF ~dir.readable THEN [backend |-> no_backend("err"), tried |-> <<>>]
    ELSE open_loop(dir, card_entries(dir), 1, <<>>)

(***************************************************************************)
(* kms.rs: capture.  A call threads k = [gem, ops] through its steps: the  *)
(* GEM handles the process holds open and the device operations issued so  *)
(* far, in order.  What the device answers is `env`:                       *)
(*   crtc_ok   get_crtc succeeds                                           *)
(*   crtcs     the framebuffer each CRTC reports (0 = none bound)          *)
(*   fault2    where the GET_FB2 tier meets a device failure               *)
(*   fault1    where the GET_FB tier meets a device failure                *)
(* with faults "query" (the framebuffer query fails), "no_handle" (it      *)
(* returns no buffer handle: no CAP_SYS_ADMIN), "export" (PRIME export     *)
(* fails), "mmap" (mmap fails) or "none".                                   *)
(***************************************************************************)
NoBytes == [a \in {} |-> 0]

CrtcIds == {1, 2}

\* The framebuffer each CRTC of a card scans out (0 = none).
scanout(card) ==
    [c \in CrtcIds |->
        IF \E i \in 1..Len(card.connectors) : card.connectors[i].crtc = c
        THEN LET i == CHOOSE j \in 1..Len(card.connectors) : card.connectors[j].crtc = c
             IN  card.connectors[i].fb
        ELSE 0]

\* What the device holds for each framebuffer id: layout modifier ("none" =
\* not reported), fourcc, pitch, and the legacy bpp / depth pair.
FbInfo(fb) ==
    CASE fb = 1 -> [modifier |-> "Linear", format |-> "Xrgb8888", pitch |-> 8, bpp |-> 32, depth |-> 24]
      [] fb = 2 -> [modifier |-> "Tiled", format |-> "Xrgb8888", pitch |-> 8, bpp |-> 32, depth |-> 24]
      [] fb = 3 -> [modifier |-> None, format |-> "Rgb565", pitch |-> 6, bpp |-> 16, depth |-> 16]
      [] fb = 4 -> [modifier |-> "Linear", format |-> "Nv12", pitch |-> 8, bpp |-> 8, depth |-> 0]
      [] fb = 5 -> [modifier |-> "Linear", format |-> "Argb8888", pitch |-> 4, bpp |-> 32, depth |-> 32]

FbIds == 1..5

\* A device operation, its argument and whether it succeeded.
log(k, op, arg, succeeded) ==
    [k EXCEPT !.ops = Append(@, [op |-> op, arg |-> arg, ok |-> succeeded])]

\* The handle a framebuffer query returns: the lowest id not in use.
new_handle(k) == CHOOSE h \in 1..(Cardinality(k.gem) + 1) :
                    h \notin k.gem /\ \A g \in 1..(h - 1) : g \in k.gem

\* A framebuffer query that returned a buffer handle.
with_handle(k, h) == [log(k, "GEM_HANDLE", h, TRUE) EXCEPT !.gem = @ \cup {h}]

close_buffer(k, h) == [log(k, "CLOSE_GEM", h, h \in k.gem) EXCEPT !.gem = @ \ {h}]

\* An RgbaImage: its dimensions and its pixel bytes.
image(width, height, data) ==
    [kind |-> "image", code |-> "", msg |-> "", width |-> width, height |-> height,
     len |-> Len(data), data |-> data]

mcp_error(code, msg) ==
    [kind |-> "err", code |-> code, msg |-> msg, width |-> 0, height |-> 0, len |-> 0,
     data |-> <<>>]

internal_error(msg) == mcp_error("internal_error", msg)

invalid_params(msg) == mcp_error("invalid_params", msg)

unwinding ==
    [kind |-> "panic", code |-> "", msg |-> "", width |-> 0, height |-> 0, len |-> 0,
     data |-> <<>>]

\* from_raw taking the dimensions in the other order.
from_raw_transposed(width, height, data) ==
    IF Len(data) >= width * height * 4 THEN image(height, width, data)
    ELSE internal_error("Failed to create image from pixel data")

\* RgbaImage::from_raw: None when the buffer is shorter than width * height * 4.
from_raw(width, height, data) ==
    IF Len(data) >= width * height * 4 THEN image(width, height, data)
    ELSE internal_error("Failed to create image from pixel data")

\* mmap_gem_buffer leaking the PRIME fd when mmap fails.
mmap_gem_buffer_keeps_fd(k, gem_handle, height, pitch, fault) ==
    IF fault = "export"
    THEN [k |-> log(k, "PRIME_EXPORT", gem_handle, FALSE), ok |-> FALSE,
          error |-> "PRIME export failed", raw |-> None]
    ELSE LET size == height * pitch
             k1 == log(k, "PRIME_EXPORT", gem_handle, TRUE)
         IN  IF fault = "mmap"
             THEN [k |-> log(k1, "MMAP", size, FALSE),
                   ok |-> FALSE, error |-> "mmap failed", raw |-> None]
             ELSE [k |-> log(log(log(log(k1, "MMAP", size, TRUE), "COPY", size, TRUE),
                                 "MUNMAP", size, TRUE), "CLOSE_FD", gem_handle, TRUE),
                   ok |-> TRUE, error |-> "",
                   raw |-> [len |-> U(size), seed |-> gem_handle, set |-> NoBytes]]

\* Export, mmap, copy, munmap; the PRIME fd is dropped (closed) on return.
\* The result is Ok(raw) or Err(error).
mmap_gem_buffer(k, gem_handle, height, pitch, fault) ==
    IF fault = "export"
    THEN [k |-> log(k, "PRIME_EXPORT", gem_handle, FALSE), ok |-> FALSE,
          error |-> "PRIME export failed", raw |-> None]
    ELSE LET size == height * pitch
             k1 == log(k, "PRIME_EXPORT", gem_handle, TRUE)
         IN  IF fault = "mmap"
             THEN [k |-> log(log(k1, "MMAP", size, FALSE), "CLOSE_FD", gem_handle, TRUE),
                   ok |-> FALSE, error |-> "mmap failed", raw |-> None]
             ELSE [k |-> log(log(log(log(k1, "MMAP", size, TRUE), "COPY", size, TRUE),
                                 "MUNMAP", size, TRUE), "CLOSE_FD", gem_handle, TRUE),
                   ok |-> TRUE, error |-> "",
                   raw |-> [len |-> U(size), seed |-> gem_handle, set |-> NoBytes]]

capture_fb2(k, fb_handle, width, height, fault, b) ==
    IF fault = "query"
    THEN [k |-> log(k, "GET_FB2", fb_handle, FALSE), res |-> internal_error("GET_FB2 failed")]
    ELSE
    LET k1 == log(k, "GET_FB2", fb_handle, TRUE)
        info == FbInfo(fb_handle)
        has == fault # "no_handle"
        gem_handle == new_handle(k1)
        k2 == IF has THEN with_handle(k1, gem_handle) ELSE k1
    IN  IF info.modifier # None /\ info.modifier # "Linear"
        THEN [k |-> k2, res |-> internal_error("Framebuffer has non-linear modifier")]
        ELSE IF ~has
        THEN [k |-> k2, res |-> internal_error("No buffer handle in framebuffer")]
        ELSE
        let_in(mmap_gem_buffer(k2, gem_handle, height, info.pitch, fault), LAMBDA m :
        IF ~m.ok THEN [k |-> m.k, res |-> internal_error(m.error)]
        ELSE
        let_in(convert_to_rgba(m.raw, width, height, U(info.pitch), info.format, b), LAMBDA rgba :
        IF rgba.kind = "panic" THEN [k |-> m.k, res |-> unwinding]
        ELSE IF rgba.kind = "err" THEN [k |-> m.k, res |-> internal_error(rgba.data[1])]
        ELSE [k |-> close_buffer(m.k, gem_handle), res |-> from_raw(width, height, rgba.data)]))

\* format!("Unsupported framebuffer format: {bpp}bpp depth={depth}")
unsupported_format(bpp, depth) ==
    "Unsupported framebuffer format: " \o ToString(bpp) \o "bpp depth=" \o ToString(depth)

\* legacy_format treating every other pair as XRGB8888.
legacy_format_lenient(bpp, depth) ==
    IF bpp = 32 /\ depth = 32 THEN "Argb8888"
    ELSE IF bpp = 16 /\ depth = 16 THEN "Rgb565"
    ELSE "Xrgb8888"

\* The (bpp, depth) match of the legacy tier; "" for the `_` arm.
legacy_format(bpp, depth) ==
    IF bpp = 32 /\ depth = 24 THEN "Xrgb8888"
    ELSE IF bpp = 32 /\ depth = 32 THEN "Argb8888"
    ELSE IF bpp = 16 /\ depth = 16 THEN "Rgb565"
    ELSE ""

capture_fb1(k, fb_handle, width, height, fault, b) ==
    IF fault = "query"
    THEN [k |-> log(k, "GET_FB", fb_handle, FALSE), res |-> internal_error("GET_FB failed")]
    ELSE
    LET k1 == log(k, "GET_FB", fb_handle, TRUE) IN
    IF fault = "no_handle"
    THEN [k |-> k1, res |-> internal_error("No buffer handle from GET_FB. CAP_SYS_ADMIN is required")]
    ELSE
    LET info == FbInfo(fb_handle)
        gem_handle == new_handle(k1)
        k2 == with_handle(k1, gem_handle)
        format == legacy_format(info.bpp, info.depth)
    IN  IF format = ""
        THEN [k |-> close_buffer(k2, gem_handle),
              res |-> internal_error(unsupported_format(info.bpp, info.depth))]
        ELSE
        let_in(mmap_gem_buffer(k2, gem_handle, height, info.pitch, fault), LAMBDA m :
        IF ~m.ok THEN [k |-> m.k, res |-> internal_error(m.error)]
        ELSE
        let_in(convert_to_rgba(m.raw, width, height, U(info.pitch), format, b), LAMBDA rgba :
        IF rgba.kind = "panic" THEN [k |-> m.k, res |-> unwinding]
        ELSE IF rgba.kind = "err"
        THEN [k |-> close_buffer(m.k, gem_handle), res |-> internal_error(rgba.data[1])]
        ELSE [k |-> close_buffer(m.k, gem_handle), res |-> from_raw(width, height, rgba.data)]))

\* capture_fb trying GET_FB2 once more when the GET_FB tier fails.
capture_fb_retry(k, output, env, b) ==
    IF ~env.crtc_ok
    THEN [k |-> log(k, "GET_CRTC", output.crtc_handle, FALSE),
          res |-> internal_error("Failed to get CRTC")]
    ELSE
    LET now == env.crtcs[output.crtc_handle]
        k1 == log(log(k, "GET_CRTC", output.crtc_handle, TRUE), "CRTC_FB", now, TRUE)
        fb_handle == IF now # 0 THEN now ELSE output.fb_handle
    IN  let_in(capture_fb2(k1, fb_handle, output.width, output.height, env.fault2, b), LAMBDA fb2 :
        IF fb2.res.kind # "err" THEN fb2
        ELSE
        let_in(capture_fb1(fb2.k, fb_handle, output.width, output.height, env.fault1, b), LAMBDA fb1 :
        IF fb1.res.kind # "err" THEN fb1
        ELSE capture_fb2(fb1.k, fb_handle, output.width, output.height, env.fault2, b)))

capture_fb(k, output, env, b) ==
    IF ~env.crtc_ok
    THEN [k |-> log(k, "GET_CRTC", output.crtc_handle, FALSE),
          res |-> internal_error("Failed to get CRTC")]
    ELSE
    LET now == env.crtcs[output.crtc_handle]
        k1 == log(log(k, "GET_CRTC", output.crtc_handle, TRUE), "CRTC_FB", now, TRUE)
        fb_handle == IF now # 0 THEN now ELSE output.fb_handle
    IN  let_in(capture_fb2(k1, fb_handle, output.width, output.height, env.fault2, b), LAMBDA fb2 :
        IF fb2.res.kind # "err" THEN fb2
        ELSE capture_fb1(fb2.k, fb_handle, output.width, output.height, env.fault1, b))

\* Option<u32>::None for monitor_id.
NoId == -1

\* capture_monitor clamping an index past the end to the last output.
capture_monitor_clamped(k, outputs, monitor_id, env, b) ==
    IF monitor_id # NoId
    THEN IF monitor_id < Len(outputs)
         THEN capture_fb(k, outputs[monitor_id + 1], env, b)
         ELSE capture_fb(k, outputs[Len(outputs)], env, b)
    ELSE IF outputs # <<>>
         THEN capture_fb(k, outputs[1], env, b)
         ELSE [k |-> k, res |-> internal_error("No active outputs")]

capture_monitor(k, outputs, monitor_id, env, b) ==
    IF monitor_id # NoId
    THEN IF monitor_id < Len(outputs)
         THEN capture_fb(k, outputs[monitor_id + 1], env, b)
         ELSE [k |-> k, res |-> invalid_params("Monitor index out of range")]
    ELSE IF outputs # <<>>
         THEN capture_fb(k, outputs[1], env, b)
         ELSE [k |-> k, res |-> internal_error("No active outputs")]

\* list_monitors numbering the outputs from 1.
list_monitors_from_one(outputs) ==
    [i \in 1..Len(outputs) |->
        [id |-> i, name |-> outputs[i].connector_name, x |-> 0, y |-> 0,
         width |-> outputs[i].width, height |-> outputs[i].height,
         is_primary |-> (i = 1)]]

list_monitors(outputs) ==
    [i \in 1..Len(outputs) |->
        [id |-> i - 1, name |-> outputs[i].connector_name, x |-> 0, y |-> 0,
         width |-> outputs[i].width, height |-> outputs[i].height,
         is_primary |-> (i - 1 = 0)]]

(***************************************************************************)
(* The decoder on its own: convert_to_rgba applied to bounded inputs.      *)
(***************************************************************************)
MaxWidth == 2

MaxHeight == 2

MaxPad == 2

Seeds == {0, 7, 200}

Formats == Supported \cup {"Nv12"}

\* A source of exactly height * pitch bytes, pitch = width * bpp + pad.
SmallInputs ==
    { [format |-> f, width |-> w, height |-> h,
       pitch |-> U(w * bytes_per_pixel(f) + pad),
       src |-> [len |-> U(h * (w * bytes_per_pixel(f) + pad)), seed |-> s, set |-> NoBytes]] :
      f \in Formats, w \in 0..MaxWidth, h \in 0..MaxHeight, pad \in 0..MaxPad, s \in Seeds }

\* The packed-BGRX example: 2x1, pitch 8, bytes 10 20 30 00 40 50 60 00 (hex).
ExampleBytes == <<16, 32, 48, 0, 64, 80, 96, 0>>

ExampleInput ==
    [format |-> "Xrgb8888", width |-> 2, height |-> 1, pitch |-> U(8),
     src |-> [len |-> U(8), seed |-> 0, set |-> [a \in {U(i) : i \in 0..7} |-> ExampleBytes[a.lo + 1]]]]

\* Tall buffers of 2^31-byte rows: height * pitch reaches 2^32 from height 3 on.
WidePitch == [hi |-> 2 ^ 15, lo |-> 0]

WideInputs ==
    { [format |-> f, width |-> 1, height |-> h, pitch |-> WidePitch,
       src |-> [len |-> mul_usize(h, WidePitch), seed |-> s, set |-> NoBytes]] :
      f \in Supported, h \in 2..3, s \in Seeds }

Builds == {"debug", "release"}

\* The values of the variables a specification does not use.
no_input == [format |-> None]

no_card == [res_ok |-> FALSE, connectors |-> <<>>]

no_dri == [readable |-> FALSE, nodes |-> NoBytes]

no_crtcs == [c \in CrtcIds |-> 0]

no_call ==
    [call |-> None, id |-> NoId, res |-> mcp_error("", ""), ops |-> <<>>, listing |-> <<>>]

Idle ==
    /\ p_card = no_card /\ p_out = not_probed
    /\ dri = no_dri /\ opened = <<>> /\ backend = no_backend(None)
    /\ crtc_fb = no_crtcs /\ gem = {} /\ last = no_call

InitDecode ==
    /\ build \in Builds
    /\ d_in \in SmallInputs \cup WideInputs \cup {ExampleInput}
    /\ d_out = not_called
    /\ Idle

Decode ==
    /\ d_in.format # None /\ d_out = not_called
    /\ d_out' = convert_to_rgba(d_in.src, d_in.width, d_in.height, d_in.pitch, d_in.format, build)
    /\ UNCHANGED <<build, d_in, p_card, p_out, dri, opened, backend, crtc_fb, gem, last>>

NextDecode == Decode

SpecDecode == InitDecode /\ [][NextDecode]_vars

\* Every 16-bit word as a 1x1 compact-5-6-5 buffer [lo, hi].
WordInputs ==
    { [format |-> "Rgb565", width |-> 1, height |-> 1, pitch |-> U(2),
       src |-> [len |-> U(2), seed |-> 0, set |-> (U(0) :> lo) @@ (U(1) :> hi)]] :
      lo \in 0..255, hi \in 0..255 }

InitWord ==
    /\ build \in Builds
    /\ d_in \in WordInputs
    /\ d_out = not_called
    /\ Idle

SpecWord == InitWord /\ [][NextDecode]_vars

(***************************************************************************)
(* Claims about the decoder.                                               *)
(***************************************************************************)
\* The decoder's contract on its input: a supported encoding, pitch at least
\* width * bytes-per-pixel, and a source of exactly height * pitch bytes.
InContract(d) ==
    /\ d.format \in Supported
    /\ le_usize(U(d.width * bytes_per_pixel(d.format)), d.pitch)
    /\ d.src.len = mul_usize(d.height, d.pitch)

\* The address of byte k of row y, in exact (unbounded) arithmetic.
row_addr(d, y, k) == add_usize(mul_usize(y, d.pitch), k)

\* Output pixel (x, y) of a row-major width x height x 4 buffer.
out_pixel(data, width, x, y) == SubSeq(data, 4 * (y * width + x) + 1, 4 * (y * width + x) + 4)

with_byte(src, a, v) == [src EXCEPT !.set = (a :> v) @@ src.set]

\* Some padding addresses of every row (all of them when the padding is short).
PaddingSample(d) ==
    LET used == d.width * bytes_per_pixel(d.format) IN
    { row_addr(d, y, k) : y \in 0..(d.height - 1),
                          k \in { j \in used..(used + MaxPad) : lt_usize(U(j), d.pitch) } }

Opaque == {"Xrgb8888", "Xbgr8888", "Rgb565"}

DecodeShape(d, out) ==
    /\ out.kind = "ok"
    /\ Len(out.data) = d.width * d.height * 4
    /\ \A y \in 0..(d.height - 1), x \in 0..(d.width - 1) :
          out_pixel(out.data, d.width, x, y) =
              push_pixel(d.format, d.src, row_addr(d, y, 0), x * bytes_per_pixel(d.format))
    /\ \A a \in PaddingSample(d), v \in {0, 255} :
          convert_to_rgba(with_byte(d.src, a, v), d.width, d.height, d.pitch, d.format, build) = out
    /\ d.format \in Opaque =>
          \A i \in 1..(d.width * d.height) : out.data[4 * i] = 255

\* C8: for each supported encoding, every width, height and pitch >= width x
\* bytes-per-pixel, and a source of height x pitch bytes, convert_to_rgba returns
\* exactly width x height x 4 bytes in row-major order, the padding bytes never
\* influence the output, and the opaque encodings give A = 255 for every pixel.
C8_DecodeAnyPitch ==
    (d_out # not_called /\ InContract(d_in)) => DecodeShape(d_in, d_out)

\* The same statement for the inputs whose height x pitch fits 32 bits, where
\* the row offset y * pitch cannot overflow.
FitsU32(d) == d.src.len.hi < Limb

C8_DecodeWithinU32 ==
    (d_out # not_called /\ InContract(d_in) /\ FitsU32(d_in)) => DecodeShape(d_in, d_out)

Packed32 == {"Xrgb8888", "Argb8888", "Xbgr8888", "Abgr8888"}

\* The claimed channel mapping of the four source bytes s of one pixel.
claimed_rgba(format, s) ==
    CASE format = "Xrgb8888" -> <<s[3], s[2], s[1], 255>>
      [] format = "Argb8888" -> <<s[3], s[2], s[1], s[4]>>
      [] format = "Xbgr8888" -> <<s[1], s[2], s[3], 255>>
      [] format = "Abgr8888" -> <<s[1], s[2], s[3], s[4]>>

PixelMapping(d, out) ==
    /\ \A y \in 0..(d.height - 1), x \in 0..(d.width - 1) :
          out_pixel(out.data, d.width, x, y) =
              claimed_rgba(d.format, [k \in 1..4 |-> byte_at(d.src, row_addr(d, y, 4 * x + k - 1))])
    /\ d = ExampleInput => out.data = <<48, 32, 16, 255, 96, 80, 64, 255>>

\* C9: for the four 32-bit encodings, output pixel (x, y) is computed from the
\* four source bytes at offset y x pitch + 4x: [B,G,R,X] gives (R,G,B,255),
\* [B,G,R,A] gives (R,G,B,A), [R,G,B,X] gives (R,G,B,255), [R,G,B,A] gives
\* (R,G,B,A); and the BGRX example decodes to 30 20 10 FF 60 50 40 FF (hex).
C9_PixelMapping ==
    (d_out.kind = "ok" /\ InContract(d_in) /\ d_in.format \in Packed32) =>
        PixelMapping(d_in, d_out)

C9_PixelMappingWithinU32 ==
    (d_out.kind = "ok" /\ InContract(d_in) /\ d_in.format \in Packed32 /\ FitsU32(d_in)) =>
        PixelMapping(d_in, d_out)

\* The word of a 1x1 compact-5-6-5 input.
word_of(d) == d.src.set[U(0)] + 256 * d.src.set[U(1)]

\* C10: every 16-bit little-endian word p decodes to R = (r<<3)|(r>>2) with r =
\* bits 15..11, G = (g<<2)|(g>>4) with g = bits 10..5, B = (b<<3)|(b>>2) with b =
\* bits 4..0 and A = 255, without 8-bit overflow or truncation; a field of all
\* ones gives 255, a field of all zeros 0, and the mapping is strictly
\* increasing in each field.
C10_Rgb565Expansion ==
    d_out # not_called =>
        LET p == word_of(d_in)
            r == p \div 2048
            g == (p \div 32) % 64
            b == p % 32
        IN  /\ d_out = ok(<<8 * r + (r \div 4), 4 * g + (g \div 16), 8 * b + (b \div 4), 255>>)
            /\ \A k \in 1..4 : d_out.data[k] \in 0..255
            /\ (r = 31 => d_out.data[1] = 255) /\ (r = 0 => d_out.data[1] = 0)
            /\ (g = 63 => d_out.data[2] = 255) /\ (g = 0 => d_out.data[2] = 0)
            /\ (b = 31 => d_out.data[3] = 255) /\ (b = 0 => d_out.data[3] = 0)
            /\ \A v \in 0..30 : expand5(v) < expand5(v + 1)
            /\ \A v \in 0..62 : expand6(v) < expand6(v + 1)

\* A word with all three fields all ones has been decoded to white.
C10_Witness ==
    d_out.kind = "ok" /\ d_in.format = "Rgb565" /\ d_in.width = 1 /\ word_of(d_in) = 65535
        /\ d_out.data = <<255, 255, 255, 255>>

(***************************************************************************)
(* The prober on its own: probe_outputs applied to bounded cards.          *)
(***************************************************************************)
MaxConnectors == 2

ConnectorName(crtc) == IF crtc = 1 THEN "HDMI-A-1" ELSE "DP-1"

GoodConnector(crtc, mode, fb) ==
    [get_ok |-> TRUE, state |-> "Connected", name |-> ConnectorName(crtc),
     encoder |-> 10 + crtc, enc_ok |-> TRUE, crtc |-> crtc, crtc_ok |-> TRUE,
     mode |-> mode, fb |-> fb]

Modes == {<<2, 1>>, <<1, 2>>}

GoodConnectors == { GoodConnector(c, m, f) : c \in CrtcIds, m \in Modes, f \in {1, 3} }

\* Every way one connector drops out of the chain.
Defects(g) ==
    { [g EXCEPT !.get_ok = FALSE], [g EXCEPT !.state = "Disconnected"],
      [g EXCEPT !.state = "Unknown"], [g EXCEPT !.encoder = 0],
      [g EXCEPT !.enc_ok = FALSE], [g EXCEPT !.crtc = 0], [g EXCEPT !.crtc_ok = FALSE],
      [g EXCEPT !.mode = <<>>], [g EXCEPT !.fb = 0], [g EXCEPT !.mode = <<>>, !.fb = 0] }

Connectors ==
    GoodConnectors \cup UNION { Defects(GoodConnector(c, <<2, 1>>, 1)) : c \in CrtcIds }

ProbeCards ==
    { [res_ok |-> TRUE, connectors |-> cs] :
        cs \in UNION { [1..n -> Connectors] : n \in 0..MaxConnectors } }
    \cup { [res_ok |-> FALSE, connectors |-> <<>>] }

InitProbe ==
    /\ build \in Builds
    /\ p_card \in ProbeCards
    /\ p_out = not_probed
    /\ d_in = no_input /\ d_out = not_called
    /\ dri = no_dri /\ opened = <<>> /\ backend = no_backend(None)
    /\ crtc_fb = no_crtcs /\ gem = {} /\ last = no_call

Probe ==
    /\ ~p_out.called
    /\ LET r == probe_outputs(p_card) IN
           p_out' = [called |-> TRUE, ok |-> r.ok, outputs |-> r.outputs]
    /\ UNCHANGED <<build, d_in, d_out, p_card, dri, opened, backend, crtc_fb, gem, last>>

NextProbe == Probe

SpecProbe == InitProbe /\ [][NextProbe]_vars

\* A connector that is connected, has an encoder with a CRTC, and whose CRTC
\* has a mode and a framebuffer, all of it successfully queried.
Qualifies(c) ==
    /\ c.get_ok /\ c.state = "Connected"
    /\ c.encoder # 0 /\ c.enc_ok
    /\ c.crtc # 0 /\ c.crtc_ok
    /\ c.mode # <<>> /\ c.fb # 0

ExpectedOutputs(connectors) ==
    LET q == SelectSeq(connectors, Qualifies) IN
    [i \in 1..Len(q) |->
        [connector_name |-> q[i].name, crtc_handle |-> q[i].crtc,
         width |-> q[i].mode[1], height |-> q[i].mode[2], fb_handle |-> q[i].fb]]

\* C5: when the query for one connector's state, encoder or CRTC fails, only
\* that connector is skipped: the probe still succeeds and returns the Active
\* Outputs of all other qualifying connectors.
C5_ProbeSurvivesQueryFailure ==
    (p_out.called /\ p_card.res_ok) =>
        (p_out.ok /\ p_out.outputs = ExpectedOutputs(p_card.connectors))

AllQueriesSucceed(card) ==
    card.res_ok /\ \A i \in 1..Len(card.connectors) :
        card.connectors[i].get_ok /\ card.connectors[i].enc_ok /\ card.connectors[i].crtc_ok

\* C6: when all queries succeed, probe_outputs returns exactly the connectors
\* that are connected, have a bound encoder whose CRTC is bound and reports a
\* mode and a framebuffer, in connector order, each with the CRTC handle, the
\* mode's width and height and the framebuffer id.
C6_ProbeSelectsActive ==
    (p_out.called /\ AllQueriesSucceed(p_card)) =>
        (p_out.ok /\ p_out.outputs = ExpectedOutputs(p_card.connectors))

\* A probe that skipped a connector without a framebuffer and kept the next one.
C6_Witness ==
    /\ p_out.called /\ AllQueriesSucceed(p_card)
    /\ Len(p_card.connectors) = 2
    /\ p_card.connectors[1].fb = 0 /\ p_card.connectors[1].mode # <<>>
    /\ Qualifies(p_card.connectors[2])
    /\ p_out.ok /\ Len(p_out.outputs) = 1
    /\ p_out.outputs[1].crtc_handle = p_card.connectors[2].crtc

(***************************************************************************)
(* Construction on its own: open applied to bounded /dev/dri directories.  *)
(***************************************************************************)
MaxNodes == 3

Card0 == <<99, 97, 114, 100, 48>>

Card1 == <<99, 97, 114, 100, 49>>

Card10 == <<99, 97, 114, 100, 49, 48>>

Card2 == <<99, 97, 114, 100, 50>>

RenderD128 == <<114, 101, 110, 100, 101, 114, 68, 49, 50, 56>>

CardNames == {Card0, Card1, Card10, Card2}

ConnA == GoodConnector(1, <<2, 1>>, 1)

ConnB == GoodConnector(2, <<1, 2>>, 3)

CardWith(connectors) == [can_open |-> TRUE, card |-> [res_ok |-> TRUE, connectors |-> connectors]]

NodeKinds ==
    { [can_open |-> FALSE, card |-> [res_ok |-> TRUE, connectors |-> <<ConnA>>]],
      [can_open |-> TRUE, card |-> [res_ok |-> FALSE, connectors |-> <<>>]],
      CardWith(<<>>),
      CardWith(<<[ConnA EXCEPT !.state = "Disconnected"]>>),
      CardWith(<<[ConnA EXCEPT !.get_ok = FALSE], ConnB>>),
      CardWith(<<ConnA>>),
      CardWith(<<ConnA, ConnB>>),
      CardWith(<<[ConnA EXCEPT !.fb = 0], ConnB>>) }

Directories ==
    { [readable |-> TRUE, nodes |-> f] :
        f \in UNION { [S -> NodeKinds] :
                        S \in { T \in SUBSET (CardNames \cup {RenderD128}) :
                                  Cardinality(T \cap CardNames) <= MaxNodes } } }
    \cup { no_dri }

NotConstructed == backend.kind = None

InitOpen ==
    /\ build \in Builds
    /\ dri \in Directories
    /\ opened = <<>> /\ backend = no_backend(None)
    /\ d_in = no_input /\ d_out = not_called
    /\ p_card = no_card /\ p_out = not_probed
    /\ crtc_fb = no_crtcs /\ gem = {} /\ last = no_call

Open ==
    /\ NotConstructed
    /\ LET r == open(dri) IN
           /\ backend' = r.backend
           /\ opened' = r.tried
           /\ crtc_fb' = IF r.backend.kind = "ok" THEN scanout(dri.nodes[r.backend.path].card)
                         ELSE no_crtcs
    /\ UNCHANGED <<build, d_in, d_out, p_card, p_out, dri, gem, last>>

NextOpen == Open

SpecOpen == InitOpen /\ [][NextOpen]_vars

IsCardName(n) == Len(n) >= 4 /\ n[1] = 99 /\ n[2] = 97 /\ n[3] = 114 /\ n[4] = 100

\* The node yields at least one Active Output when opened and probed.
Yields(node) ==
    node.can_open /\ probe_outputs(node.card).ok /\ probe_outputs(node.card).outputs # <<>>

Ascending(names) == \A i \in 1..(Len(names) - 1) : name_less(names[i], names[i + 1])

Range(seq) == { seq[i] : i \in 1..Len(seq) }

\* C4: open tries the card nodes in ascending name order and binds to the first
\* node whose probe yields an Active Output; nodes that fail to open, whose
\* probe fails or is empty are skipped; no node after the selected one is
\* opened; open fails only when no node yields an active output.
C4_OpenFirstActiveCard ==
    (~NotConstructed /\ dri.readable) =>
        LET cards == { n \in DOMAIN dri.nodes : IsCardName(n) }
            good == { n \in cards : Yields(dri.nodes[n]) }
        IN  /\ Ascending(opened)
            /\ IF good = {}
               THEN backend.kind = "err" /\ Range(opened) = cards
               ELSE /\ backend.kind = "ok"
                    /\ backend.path \in good
                    /\ \A n \in good \ {backend.path} : name_less(backend.path, n)
                    /\ backend.outputs = probe_outputs(dri.nodes[backend.path].card).outputs
                    /\ Range(opened) =
                          { n \in cards : n = backend.path \/ name_less(n, backend.path) }

\* Three card nodes: the first was skipped, the second selected, and the third,
\* which also has an active output, was never opened.
C4_Witness ==
    /\ backend.kind = "ok" /\ Len(opened) = 2 /\ opened[2] = backend.path
    /\ ~Yields(dri.nodes[opened[1]])
    /\ \E n \in DOMAIN dri.nodes :
          IsCardName(n) /\ name_less(backend.path, n) /\ Yields(dri.nodes[n])

(***************************************************************************)
(* The backend: construction, then any sequence of capture and             *)
(* list_outputs calls while the device flips or unbinds framebuffers.      *)
(***************************************************************************)
MaxHandles == 2

MaxIndex == 2

Faults == {"none", "query", "no_handle", "export", "mmap"}

Worlds ==
    { [readable |-> TRUE, nodes |-> (Card0 :> CardWith(<<ConnA>>))],
      [readable |-> TRUE,
       nodes |-> (Card0 :> [can_open |-> FALSE, card |-> no_card])
                 @@ (Card1 :> CardWith(<<ConnA, ConnB>>))
                 @@ (RenderD128 :> CardWith(<<ConnA>>))],
      [readable |-> TRUE,
       nodes |-> (Card10 :> CardWith(<<[ConnA EXCEPT !.fb = 0], ConnB>>))
                 @@ (Card2 :> CardWith(<<ConnA>>))],
      [readable |-> TRUE, nodes |-> (Card0 :> CardWith(<<>>))],
      no_dri }

\* The buffers captured here are far below 2^32 bytes, where the two builds
\* compute the same.
Init ==
    /\ build = "release"
    /\ dri \in Worlds
    /\ opened = <<>> /\ backend = no_backend(None)
    /\ d_in = no_input /\ d_out = not_called
    /\ p_card = no_card /\ p_out = not_probed
    /\ crtc_fb = no_crtcs /\ gem = {} /\ last = no_call

\* The device answers only the operations a call issues: a failure is chosen
\* for get_crtc when an output is selected, for the GET_FB2 tier when get_crtc
\* succeeded, and for the GET_FB tier when the call reaches it.
Selects(outputs, id) == IF id = NoId THEN outputs # <<>> ELSE id < Len(outputs)

Issued(ops, op) == \E i \in 1..Len(ops) : ops[i].op = op

ReachesLegacy(id, crtc_ok, fault2) ==
    LET env == [crtc_ok |-> crtc_ok, crtcs |-> crtc_fb, fault2 |-> fault2, fault1 |-> "none"]
    IN  Issued(capture_monitor([gem |-> gem, ops |-> <<>>], backend.outputs, id, env, build).k.ops,
               "GET_FB")

Capture ==
    /\ backend.kind = "ok"
    /\ Cardinality(gem) + 2 <= MaxHandles
    /\ \E id \in {NoId} \cup 0..MaxIndex :
       \E crtc_ok \in IF Selects(backend.outputs, id) THEN BOOLEAN ELSE {TRUE} :
       \E fault2 \in IF Selects(backend.outputs, id) /\ crtc_ok THEN Faults ELSE {"none"} :
       \E fault1 \in IF ReachesLegacy(id, crtc_ok, fault2) THEN Faults ELSE {"none"} :
       \E r \in { capture_monitor([gem |-> gem, ops |-> <<>>], backend.outputs, id,
                                  [crtc_ok |-> crtc_ok, crtcs |-> crtc_fb, fault2 |-> fault2,
                                   fault1 |-> fault1], build) } :
              /\ gem' = r.k.gem
              /\ last' = [call |-> "capture", id |-> id, res |-> r.res, ops |-> r.k.ops,
                          listing |-> <<>>]
    /\ UNCHANGED <<build, d_in, d_out, p_card, p_out, dri, opened, backend, crtc_fb>>

ListMonitors ==
    /\ backend.kind = "ok"
    /\ last' = [call |-> "list", id |-> NoId, res |-> mcp_error("", ""), ops |-> <<>>,
                listing |-> list_monitors(backend.outputs)]
    /\ UNCHANGED <<build, d_in, d_out, p_card, p_out, dri, opened, backend, crtc_fb, gem>>

\* The device: a page flip to another framebuffer, or an unbind (fb = 0).
PageFlip ==
    /\ backend.kind = "ok"
    /\ \E i \in 1..Len(backend.outputs), fb \in {0} \cup FbIds :
          /\ crtc_fb[backend.outputs[i].crtc_handle] # fb
          /\ crtc_fb' = [crtc_fb EXCEPT ![backend.outputs[i].crtc_handle] = fb]
    /\ UNCHANGED <<build, d_in, d_out, p_card, p_out, dri, opened, backend, gem, last>>

Next == Open \/ Capture \/ ListMonitors \/ PageFlip

Spec == Init /\ [][Next]_vars

(***************************************************************************)
(* Claims about the backend.                                               *)
(***************************************************************************)
Captured == last.call = "capture"

\* The positions of last.ops after position i and before the next time the
\* device hands out the same handle again.
HeldSpan(ops, i) ==
    { j \in (i + 1)..Len(ops) :
        \A m \in (i + 1)..j : ~(ops[m].op = "GEM_HANDLE" /\ ops[m].arg = ops[i].arg) }

\* C1: for every capture call and every outcome of its steps, each GEM handle
\* obtained from a framebuffer query during the call is closed exactly once
\* before the call returns, never zero times and never twice.
C1_HandlesClosedOnce ==
    Captured =>
        \A i \in 1..Len(last.ops) :
            last.ops[i].op = "GEM_HANDLE" =>
                Cardinality({ j \in HeldSpan(last.ops, i) :
                                last.ops[j].op = "CLOSE_GEM" /\ last.ops[j].arg = last.ops[i].arg }) = 1

QueriedTiled(ops) ==
    \E i \in 1..Len(ops) :
        /\ ops[i].op = "GET_FB2" /\ ops[i].ok
        /\ FbInfo(ops[i].arg).modifier \notin {None, "Linear"}

\* C2: in any capture where the richer framebuffer query succeeds and reports a
\* modifier other than linear, the capture returns the tiled-buffer error and
\* the buffer mapper (PRIME export / mmap) is never invoked during that call.
C2_TiledNeverMapped ==
    (Captured /\ QueriedTiled(last.ops)) =>
        /\ last.res = internal_error("Framebuffer has non-linear modifier")
        /\ ~Issued(last.ops, "PRIME_EXPORT") /\ ~Issued(last.ops, "MMAP")

\* C3: for a backend with n active outputs, capture with any index i >= n
\* returns the input-validation error, never an internal error, and performs no
\* device query and obtains no handle.
C3_IndexOutOfRange ==
    (Captured /\ last.id # NoId /\ last.id >= Len(backend.outputs)) =>
        /\ last.res.kind = "err" /\ last.res.code = "invalid_params"
        /\ last.ops = <<>>

\* A capture with the index equal to the number of outputs was refused.
C3_Witness ==
    /\ Captured /\ last.id = Len(backend.outputs)
    /\ last.res = invalid_params("Monitor index out of range")

\* C7: list_outputs returns one entry per active output in probe order; entry k
\* has index k, x = 0, y = 0, the probed name, width and height, and is_primary
\* iff k = 0; and every index it reports is accepted by capture.
C7_ListOutputs ==
    /\ last.call = "list" =>
          /\ Len(last.listing) = Len(backend.outputs)
          /\ \A k \in 0..(Len(backend.outputs) - 1) :
                LET e == last.listing[k + 1]
                    o == backend.outputs[k + 1]
                IN  /\ e.id = k /\ e.x = 0 /\ e.y = 0
                    /\ e.name = o.connector_name /\ e.width = o.width /\ e.height = o.height
                    /\ e.is_primary = (k = 0)
    /\ (Captured /\ \E i \in 1..Len(backend.outputs) : list_monitors(backend.outputs)[i].id = last.id)
          => last.res.code # "invalid_params"

\* Two outputs listed: the first primary, the second not.
C7_Witness ==
    /\ last.call = "list" /\ Len(last.listing) = 2
    /\ last.listing[1].is_primary /\ ~last.listing[2].is_primary
    /\ last.listing[2].id = 1 /\ last.listing[2].name = "DP-1"

\* The output a capture call with index `id` works on.
Target(id) == backend.outputs[IF id = NoId THEN 1 ELSE id + 1]

Targeted == Captured /\ Selects(backend.outputs, last.id)

\* The positions of last.ops holding operation `op`.
At(ops, op) == { i \in 1..Len(ops) : ops[i].op = op }

\* C11: no capture call panics or aborts for any values the device reports
\* (pitch, format, bpp/depth, handles) together with the probed width and
\* height: every such condition ends in an error value or an image.
C11_CaptureNeverPanics ==
    Captured => last.res.kind \in {"image", "err"}

\* The framebuffer the CRTC reported at position j of the operations (0 = none).
Reported(ops, j) == ops[j].op = "CRTC_FB" /\ ops[j - 1].op = "GET_CRTC" /\ ops[j - 1].ok

\* C12: in every capture call the CRTC is read before any framebuffer query,
\* and the framebuffer id passed to the framebuffer queries is the one the CRTC
\* reported in that call, never the id cached at probe time, for any sequence
\* of page flips or unbinds between probing and the capture.
C12_LiveFramebufferId ==
    Captured =>
        \A i \in At(last.ops, "GET_FB2") \cup At(last.ops, "GET_FB") :
            \E j \in 2..(i - 1) : Reported(last.ops, j) /\ last.ops[i].arg = last.ops[j].arg

\* C13: within one capture call the legacy framebuffer query is issued if and
\* only if the richer framebuffer query itself failed; when the richer query
\* succeeds and a later step of that tier fails, the legacy query is not
\* attempted.
C13_LegacyOnlyAfterQueryFailure ==
    Captured =>
        (Issued(last.ops, "GET_FB") <=>
            \E i \in At(last.ops, "GET_FB2") : ~last.ops[i].ok)

\* The longest path of a capture: 9 operations of the GET_FB2 tier up to the
\* close of the exported fd, then the 8 of a complete GET_FB tier.
MaxOps == 9 + 8

Fb2OnlyErrors ==
    {"GET_FB2 failed", "Framebuffer has non-linear modifier", "No buffer handle in framebuffer"}

\* C14: a capture call never retries: it issues the CRTC query at most once,
\* the richer framebuffer query at most once and then the legacy query at most
\* once, in that order; a success of the richer tier returns its image without
\* touching the legacy tier, a failure of the legacy tier ends the capture with
\* that failure, and the call ends after a bounded number of device operations.
C14_NoRetry ==
    Captured =>
        LET ops == last.ops IN
        /\ Cardinality(At(ops, "GET_CRTC")) <= 1
        /\ Cardinality(At(ops, "GET_FB2")) <= 1
        /\ Cardinality(At(ops, "GET_FB")) <= 1
        /\ \A i \in At(ops, "GET_FB2") : \E j \in 1..(i - 1) : ops[j].op = "GET_CRTC"
        /\ \A i \in At(ops, "GET_FB") : \E j \in 1..(i - 1) : ops[j].op = "GET_FB2"
        /\ (\E c \in At(ops, "CLOSE_GEM") : \A g \in At(ops, "GET_FB") : c < g)
              => (~Issued(ops, "GET_FB") /\ last.res.kind = "image")
        /\ (Issued(ops, "GET_FB") /\ last.res.kind = "err")
              => /\ last.res.msg \notin Fb2OnlyErrors
                 /\ (ops[Len(ops)].op = "GET_FB" /\ ~ops[Len(ops)].ok)
                        => last.res = internal_error("GET_FB failed")
        /\ Len(ops) <= MaxOps

\* Both tiers were tried and the legacy query failed: the capture ended there.
C14_Witness ==
    /\ Captured /\ Issued(last.ops, "GET_FB2")
    /\ last.ops[Len(last.ops)] = [op |-> "GET_FB", arg |-> 1, ok |-> FALSE]
    /\ last.res = internal_error("GET_FB failed")

\* The framebuffer queried most recently before position i.
QueriedBefore(ops, i) ==
    LET q == { j \in 1..(i - 1) : ops[j].op \in {"GET_FB2", "GET_FB"} }
    IN  ops[CHOOSE j \in q : \A m \in q : m <= j].arg

Step(ops, i, op, arg) == i <= Len(ops) /\ ops[i].op = op /\ ops[i].arg = arg /\ ops[i].ok

MapperOps == {"PRIME_EXPORT", "MMAP", "COPY", "MUNMAP", "CLOSE_FD"}

\* C15: for every call of the buffer mapper, on success and on failure of the
\* export or of the mmap: a mapping exists only between a successful mmap and
\* the munmap of the same call, the exported PRIME fd is closed before the
\* mapper returns, the mapping and the returned buffer have exactly
\* height x pitch bytes, the steps run in the order export, map, copy, unmap,
\* close fd, and the GEM handle is closed only after the mapper has returned.
C15_MapperDiscipline ==
    /\ Captured =>
        LET ops == last.ops
            exported == { i \in At(ops, "PRIME_EXPORT") : ops[i].ok }
            mapped == { i \in At(ops, "MMAP") : ops[i].ok }
        IN
        /\ \A i \in At(ops, "PRIME_EXPORT") :
              LET h == ops[i].arg
                  size == Target(last.id).height * FbInfo(QueriedBefore(ops, i)).pitch
              IN  IF ~ops[i].ok
                  THEN i < Len(ops) => ops[i + 1].op \notin MapperOps \ {"PRIME_EXPORT"}
                  ELSE /\ i < Len(ops) /\ ops[i + 1].op = "MMAP" /\ ops[i + 1].arg = size
                       /\ IF ops[i + 1].ok
                          THEN /\ Step(ops, i + 2, "COPY", size)
                               /\ Step(ops, i + 3, "MUNMAP", size)
                               /\ Step(ops, i + 4, "CLOSE_FD", h)
                          ELSE Step(ops, i + 2, "CLOSE_FD", h)
        /\ Cardinality(At(ops, "MMAP")) = Cardinality(exported)
        /\ Cardinality(At(ops, "CLOSE_FD")) = Cardinality(exported)
        /\ Cardinality(At(ops, "COPY")) = Cardinality(mapped)
        /\ Cardinality(At(ops, "MUNMAP")) = Cardinality(mapped)
        /\ \A c \in At(ops, "CLOSE_GEM") :
              \A i \in exported : (i < c /\ ops[i].arg = ops[c].arg) =>
                  \E f \in (i + 1)..(c - 1) : ops[f].op = "CLOSE_FD" /\ ops[f].arg = ops[c].arg
    /\ backend.kind = "ok" =>
        \A n \in 1..Len(backend.outputs), fb \in FbIds :
            LET o == backend.outputs[n]
                m == mmap_gem_buffer([gem |-> gem, ops |-> <<>>], 1, o.height, FbInfo(fb).pitch, "none")
            IN  m.ok /\ m.raw.len = U(o.height * FbInfo(fb).pitch)

\* A capture in which mmap failed and the exported fd was closed next.
C15_Witness ==
    /\ Captured
    /\ \E i \in At(last.ops, "MMAP") :
          ~last.ops[i].ok /\ Step(last.ops, i + 1, "CLOSE_FD", last.ops[i - 1].arg)

\* The encoding the legacy tier is to select for a (bpp, depth) pair.
LegacyDecode(bpp, depth, raw, width, height, pitch) ==
    CASE bpp = 32 /\ depth = 24 -> convert_xrgb8888(raw, width, height, pitch, build)
      [] bpp = 32 /\ depth = 32 -> convert_argb8888(raw, width, height, pitch, build)
      [] bpp = 16 /\ depth = 16 -> convert_rgb565(raw, width, height, pitch, build)
      [] OTHER -> not_called

\* C16: in the legacy tier (32,24) selects the padded BGRX encoding, (32,32)
\* the BGRA encoding with alpha, (16,16) the 5-6-5 encoding; for every other
\* pair the capture returns an unsupported-format error naming bpp and depth,
\* the mapper is never invoked, and the handle obtained from the legacy query
\* has been closed before the error is returned.
C16_LegacyFormat ==
    Captured =>
        \A g \in At(last.ops, "GET_FB") :
            (g < Len(last.ops) /\ last.ops[g + 1].op = "GEM_HANDLE") =>
                LET ops == last.ops
                    info == FbInfo(ops[g].arg)
                    h == ops[g + 1].arg
                    o == Target(last.id)
                    raw == [len |-> U(o.height * info.pitch), seed |-> h, set |-> NoBytes]
                    rgba == LegacyDecode(info.bpp, info.depth, raw, o.width, o.height, U(info.pitch))
                IN  IF rgba = not_called
                    THEN /\ last.res = internal_error("Unsupported framebuffer format: "
                                          \o ToString(info.bpp) \o "bpp depth=" \o ToString(info.depth))
                         /\ \A i \in (g + 1)..Len(ops) : ops[i].op \notin MapperOps
                         /\ Len(ops) = g + 2 /\ Step(ops, g + 2, "CLOSE_GEM", h)
                    ELSE last.res.kind = "image" =>
                            last.res = image(o.width, o.height, rgba.data)

\* The legacy query answered 8 bpp, depth 0: refused, handle closed.
C16_Witness ==
    /\ Captured
    /\ last.res = internal_error("Unsupported framebuffer format: 8bpp depth=0")
    /\ last.ops[Len(last.ops)].op = "CLOSE_GEM" /\ last.ops[Len(last.ops)].ok

\* The backend as open constructed it.
Constructed == open(dri).backend

\* C17: after any sequence of capture and list_outputs calls the backend's
\* output list is unchanged from construction (capture never writes the
\* framebuffer id it re-read into the cached output), list_outputs returns the
\* same result every time, and a successful capture of output i returns an
\* image with the width and height list_outputs reports for i.
C17_OutputsImmutable ==
    backend.kind = "ok" =>
        /\ backend = Constructed
        /\ last.call = "list" => last.listing = list_monitors(Constructed.outputs)
        /\ (Captured /\ last.res.kind = "image") =>
              LET e == list_monitors(Constructed.outputs)[IF last.id = NoId THEN 1 ELSE last.id + 1]
              IN  /\ last.res.width = e.width /\ last.res.height = e.height
                  /\ last.res.len = e.width * e.height * 4

\* Output 1 captured after its CRTC flipped away from the cached framebuffer:
\* the cached id is still the probed one.
C17_Witness ==
    /\ Captured /\ last.id = 1 /\ last.res.kind = "image"
    /\ \E j \in At(last.ops, "CRTC_FB") : last.ops[j].arg \notin {0, Target(1).fb_handle}
    /\ Target(1).fb_handle = ConnB.fb

\* C18: every KmsBackend that open returns holds at least one active output for
\* its lifetime; capture with the index omitted targets output 0 and never
\* fails with 'No active outputs', and list_outputs never returns an empty list.
C18_NeverEmpty ==
    /\ backend.kind = "ok" => backend.outputs # <<>>
    /\ (Captured /\ last.id = NoId) =>
          /\ last.res # internal_error("No active outputs")
          /\ last.ops # <<>> /\ last.ops[1].op = "GET_CRTC"
          /\ last.ops[1].arg = backend.outputs[1].crtc_handle
    /\ last.call = "list" => last.listing # <<>>

\* A capture with the index omitted on a backend of two outputs read the CRTC
\* of the first.
C18_Witness ==
    /\ Captured /\ last.id = NoId /\ Len(backend.outputs) = 2
    /\ last.ops[1] = [op |-> "GET_CRTC", arg |-> backend.outputs[1].crtc_handle, ok |-> TRUE]
    /\ last.res.kind = "image" /\ last.res.width = backend.outputs[1].width

====
